---- MODULE Spec2Model ----
(***************************************************************************)
(* The job lifecycle engine of JQ_BE: the Job table (jobs/models.py), the  *)
(* Runner and the Reconciler (jobs/tasks.py: proc, reconcile) and the      *)
(* tenant- and worker-facing calls (jobs/views.py: JobViewSet).            *)
(*                                                                         *)
(* Time is in seconds.  A handler that reads a row and saves it later      *)
(* without a transaction (every view but create, every reconciler row)     *)
(* can be taken as two steps, a read that keeps a copy of the row and a    *)
(* write that saves the modified copy, or as one step when nothing comes   *)
(* between the two; proc's transactions hold the row lock of               *)
(* select_for_update between their read and their save.  Each              *)
(* specification below follows a part of the system: its own starting      *)
(* table, the operations it lets run, and the inputs they take.            *)
(***************************************************************************)
EXTENDS Integers, Sequences, FiniteSets, TLC

\* ----------------------------------------------------------------- bounds
MaxJobs == 5
MaxEvents == 4
MaxScans == 3
MaxBeats == 11
QueueCap == 1
MaxThrottles == 20

\* ------------------------------------------------------ program constants
JOB_LEASE_SECONDS == 60
JOB_RETRY_DELAY_SECONDS == 5
JOB_THROTTLE_BACKOFF_SECONDS == 15
JOB_PENDING_TIMEOUT_SECONDS == 10
JOB_RETRY_SCAN_SECONDS == 5
JOBS_PER_MIN_LIMIT == 4
CONCURRENT_JOBS_LIMIT == 2
AUTO_ADVANCE_DELAY_SECONDS == 8
THROTTLE_BACKOFF_CAP == 300
DEFAULT_MAX_ATTEMPTS == 3
RECONCILE_BATCH == 50
DEFAULT_LEASE_SECONDS == 120
MIN_LEASE_SECONDS == 30
MIN_RETRY_IN_SECONDS == 30

\* A null DateTimeField, and a null CharField / TextField.
NoTime == 0 - 1
Null == "null"

Tenants == {"t1", "t2"}

JobStatus == {"PENDING", "THROTTLED", "RUNNING", "DONE", "FAILED", "DLQ"}
JobStage == {"VALIDATING", "PROCESSING", "FINALIZING", "DONE"}
JobEventType == {"SUBMITTED", "LEASED", "PROGRESS_UPDATED", "RETRY_SCHEDULED",
                 "THROTTLED", "FAILED", "MOVED_TO_DLQ", "DONE"}

Max(a, b) == IF a >= b THEN a ELSE b
Min(a, b) == IF a <= b THEN a ELSE b

\* --------------------------------------------------------------- Job rows

\* Job.add_event: the event is appended to a copy of the list the object holds.
\* meta keeps the part of the metadata that tells events apart (the reason
\* of a FAILED event, "retried", "replayed"); ts is timezone.now().
add_event(job, type, meta, now) ==
    [job EXCEPT !.events = Append(@, [type |-> type, meta |-> meta, ts |-> now])]

\* Model.save(): every column is written, updated_at is auto_now.
Saved(job, now) == [job EXCEPT !.updated_at = now]

\* Model.save(update_fields=fields): only these columns of the stored row
\* `row` are replaced by the object's.
SavedFields(row, job, fields, now) ==
    [f \in DOMAIN row |->
        IF f = "updated_at" /\ f \in fields THEN now
        ELSE IF f \in fields THEN job[f] ELSE row[f]]

\* Job.objects.create(...) of JobViewSet.create followed by
\* add_event(SUBMITTED) and save().
NewJob(tenant, label, total_rows, max_attempts, key, now) ==
    add_event(
      [tenant |-> tenant, label |-> label, status |-> "PENDING",
       stage |-> "VALIDATING", progress |-> 0, processed_rows |-> 0,
       total_rows |-> total_rows, attempts |-> 0,
       max_attempts |-> max_attempts, locked_by |-> Null,
       lease_until |-> NoTime, next_retry_at |-> NoTime,
       next_run_at |-> NoTime, throttle_count |-> 0, failure_reason |-> Null,
       idempotency_key |-> key, output_result |-> "empty", events |-> << >>,
       created_at |-> now, updated_at |-> now],
      "SUBMITTED", "", now)

\* ------------------------------------------------------ tasks.py helpers

lease_seconds == JOB_LEASE_SECONDS

\* throttle_backoff_seconds, had it no cap.
ThrottleBackoffUncapped(throttle_count) ==
    JOB_THROTTLE_BACKOFF_SECONDS * (1 + throttle_count)

throttle_backoff_seconds(throttle_count) ==
    Min(JOB_THROTTLE_BACKOFF_SECONDS * (1 + throttle_count), THROTTLE_BACKOFF_CAP)

pending_timeout_seconds == JOB_PENDING_TIMEOUT_SECONDS

\* int(job.total_rows * 0.05)
FivePercent(total_rows) == (total_rows * 5) \div 100

\* mark_failed, had it left the holder on the row.
MarkFailedKeepsHolder(job, reason, now, retry_in_seconds, clock) ==
    add_event(
      [job EXCEPT !.status = "FAILED", !.stage = "VALIDATING",
                  !.failure_reason = reason,
                  !.lease_until = NoTime,
                  !.next_retry_at = now + retry_in_seconds],
      "FAILED", reason, clock)

\* `now` is the caller's now (reconcile takes it once, at the start of the
\* pass); clock is the time of the call, which add_event stamps.
mark_failed(job, reason, now, retry_in_seconds, clock) ==
    add_event(
      [job EXCEPT !.status = "FAILED", !.stage = "VALIDATING",
                  !.failure_reason = reason, !.locked_by = Null,
                  !.lease_until = NoTime,
                  !.next_retry_at = now + retry_in_seconds],
      "FAILED", reason, clock)

\* FailOrDlq, had it scheduled the retry for now.
FailOrDlqNoDelay(job, reason, now, clock) ==
    LET j1 == mark_failed([job EXCEPT !.attempts = @ + 1], reason, now, 0, clock)
    IN IF j1.attempts >= j1.max_attempts
       THEN add_event([j1 EXCEPT !.status = "DLQ"], "MOVED_TO_DLQ", "", clock)
       ELSE j1

\* attempts += 1; _mark_failed; DLQ when the budget is used up.  The three
\* places of tasks.py that fail a job (proc's handler, the pending timeout
\* and the lease expiry of reconcile) are this sequence.
FailOrDlq(job, reason, now, clock) ==
    LET j1 == mark_failed([job EXCEPT !.attempts = @ + 1], reason, now,
                          JOB_RETRY_DELAY_SECONDS, clock)
    IN IF j1.attempts >= j1.max_attempts
       THEN add_event([j1 EXCEPT !.status = "DLQ"], "MOVED_TO_DLQ", "", clock)
       ELSE j1

\* ------------------------------------------------------------ proc (Runner)

\* ProcLeaseOutcome, had the status guard let FAILED rows through.
ProcLeaseOutcomeTakesFailed(job, pnow, running_now) ==
    IF job.status \notin {"PENDING", "THROTTLED", "FAILED"} THEN "skip"
    ELSE IF job.status = "THROTTLED" /\ job.next_run_at # NoTime
            /\ job.next_run_at > pnow THEN "skip"
    ELSE IF job.attempts >= job.max_attempts THEN "dlq"
    ELSE IF CONCURRENT_JOBS_LIMIT # 0 /\ running_now >= CONCURRENT_JOBS_LIMIT
         THEN "throttled"
    ELSE "leased"

\* The first transaction of proc (tasks.py 115-168) on the locked row `job`,
\* with `running_now` the count(RUNNING, same tenant, other id) it read:
\* the row it saves.  pnow is proc's own `now`, taken before the lock;
\* now is the time of the save.
ProcLeaseOutcome(job, pnow, running_now) ==
    IF job.status \notin {"PENDING", "THROTTLED"} THEN "skip"
    ELSE IF job.status = "THROTTLED" /\ job.next_run_at # NoTime
            /\ job.next_run_at > pnow THEN "skip"
    ELSE IF job.attempts >= job.max_attempts THEN "dlq"
    ELSE IF CONCURRENT_JOBS_LIMIT # 0 /\ running_now >= CONCURRENT_JOBS_LIMIT
         THEN "throttled"
    ELSE "leased"

\* ProcThrottle, had the throttle branch counted an attempt.
ProcThrottleCountsAttempt(job, pnow, now) ==
    add_event(
      [job EXCEPT !.status = "THROTTLED", !.attempts = @ + 1,
                  !.next_run_at = pnow + throttle_backoff_seconds(job.throttle_count),
                  !.throttle_count = @ + 1,
                  !.locked_by = Null, !.lease_until = NoTime],
      "THROTTLED", "", now)

ProcThrottle(job, pnow, now) ==
    add_event(
      [job EXCEPT !.status = "THROTTLED",
                  !.next_run_at = pnow + throttle_backoff_seconds(job.throttle_count),
                  !.throttle_count = @ + 1,
                  !.locked_by = Null, !.lease_until = NoTime],
      "THROTTLED", "", now)

ProcLeaseAccept(job, pnow, now) ==
    add_event(
      add_event(
        [job EXCEPT !.status = "RUNNING", !.stage = "PROCESSING",
                    !.progress = Max(@, 5),
                    !.processed_rows = Max(@, FivePercent(job.total_rows)),
                    !.locked_by = "celery-worker",
                    !.lease_until = pnow + lease_seconds,
                    !.next_run_at = NoTime],
        "LEASED", "", now),
      "PROGRESS_UPDATED", "", now)

ProcLease(job, pnow, now, running_now) ==
    LET o == ProcLeaseOutcome(job, pnow, running_now)
    IN Saved(CASE o = "skip" -> job
               [] o = "dlq" -> add_event([job EXCEPT !.status = "DLQ"],
                                         "MOVED_TO_DLQ", "", now)
               [] o = "throttled" -> ProcThrottle(job, pnow, now)
               [] OTHER -> ProcLeaseAccept(job, pnow, now),
             now)

\* The progress the row loop writes after `processed` of `total_rows` rows:
\* min(99, max(job.progress, int(processed / max(total_rows, 1) * 95))), with
\* job.progress the value proc's own object got at the lease.
RowProgress(local_progress, processed, total_rows) ==
    Min(99, Max(local_progress, (processed * 95) \div Max(total_rows, 1)))

\* Job.objects.filter(id=job_id).update(...) of the row loop (tasks.py 206-215):
\* the five columns are written whatever the row's status is.
ProcRowUpdate(row, processed, progress, now) ==
    [row EXCEPT !.processed_rows = processed, !.progress = progress,
                !.stage = "PROCESSING", !.lease_until = now + lease_seconds,
                !.updated_at = now]

\* The completing transaction (tasks.py 218-231) on the locked row.
ProcComplete(job, now) ==
    IF job.status # "RUNNING" THEN job
    ELSE Saved(add_event(
           [job EXCEPT !.status = "DONE", !.stage = "DONE", !.progress = 100,
                       !.processed_rows = job.total_rows,
                       !.output_result = "built", !.locked_by = Null,
                       !.lease_until = NoTime, !.next_run_at = NoTime],
           "DONE", "", now), now)

\* The except handler (tasks.py 233-242) on the locked row.
ProcFailure(job, now) == Saved(FailOrDlq(job, "pipeline error", now, now), now)
\* ------------------------------------------------------ reconcile (per row)

\* PendingReady, had the cutoff been inclusive.
PendingReadyInclusive(row, now) ==
    row.status = "PENDING" /\ row.updated_at <= now - pending_timeout_seconds

\* The four queries of a pass, on a row, with the pass's `now`.
PendingReady(row, now) ==
    row.status = "PENDING" /\ row.updated_at < now - pending_timeout_seconds

ThrottledReady(row, now) ==
    row.status = "THROTTLED" /\ (row.next_run_at = NoTime \/ row.next_run_at <= now)

FailedReady(row, now) ==
    row.status = "FAILED" /\ (row.next_retry_at = NoTime \/ row.next_retry_at <= now)

\* LeaseExpired, had it looked for the rows that hold no lease time.
LeaseExpiredUnset(row, now) ==
    row.status = "RUNNING" /\ row.lease_until = NoTime

\* The lease-expiry query (tasks.py 360-364).
LeaseExpired(row, now) ==
    row.status = "RUNNING" /\ row.lease_until # NoTime /\ row.lease_until < now

ReconcileListed(cat, row, now) ==
    CASE cat = "pending" -> PendingReady(row, now)
      [] cat = "throttled" -> ThrottledReady(row, now)
      [] cat = "failed" -> FailedReady(row, now)
      [] OTHER -> LeaseExpired(row, now)

\* Whether a loop body, having re-read `job` by id and status, goes on to
\* change and save it (tasks.py 262-264, 285-289, 306-310, 370-372).
ReconcileActs(cat, job, now) ==
    CASE cat = "pending" -> job.status = "PENDING"
      [] cat = "throttled" -> job.status = "THROTTLED"
                              /\ ~(job.next_run_at # NoTime /\ job.next_run_at > now)
      [] cat = "failed" -> job.status = "FAILED"
                           /\ ~(job.next_retry_at # NoTime /\ job.next_retry_at > now)
      [] OTHER -> job.status = "RUNNING" /\ job.lease_until # NoTime
                  /\ ~(job.lease_until >= now)

\* The object each loop body holds when it calls save, from the row it
\* re-read (`job`).
ReconcilePending(job, now, clock) == FailOrDlq(job, "Pending timeout", now, clock)

\* ReconcileThrottled, had it left next_run_at on the object.
ReconcileThrottledKeepsRunAt(job) == [job EXCEPT !.status = "PENDING"]

ReconcileThrottled(job) == [job EXCEPT !.status = "PENDING", !.next_run_at = NoTime]

ReconcileFailed(job, now, clock) ==
    IF job.attempts >= job.max_attempts
    THEN [add_event([job EXCEPT !.status = "DLQ"], "MOVED_TO_DLQ", "", clock)
            EXCEPT !.next_retry_at = NoTime, !.next_run_at = NoTime]
    ELSE add_event(
           [job EXCEPT !.status = "PENDING", !.stage = "VALIDATING",
                       !.progress = 0, !.processed_rows = 0,
                       !.next_retry_at = NoTime, !.next_run_at = NoTime,
                       !.locked_by = Null, !.lease_until = NoTime],
           "RETRY_SCHEDULED", "", clock)

\* ReconcileExpired, had the budget test been attempts > max_attempts.
ReconcileExpiredLenient(job, now, clock) ==
    LET j1 == mark_failed([job EXCEPT !.attempts = @ + 1], "Worker lease expired",
                          now, JOB_RETRY_DELAY_SECONDS, clock)
    IN IF j1.attempts > j1.max_attempts
       THEN add_event([j1 EXCEPT !.status = "DLQ"], "MOVED_TO_DLQ", "", clock)
       ELSE j1

ReconcileExpired(job, now, clock) == FailOrDlq(job, "Worker lease expired", now, clock)

ReconcileObject(cat, job, now, clock) ==
    CASE cat = "pending" -> ReconcilePending(job, now, clock)
      [] cat = "throttled" -> ReconcileThrottled(job)
      [] cat = "failed" -> ReconcileFailed(job, now, clock)
      [] OTHER -> ReconcileExpired(job, now, clock)

AllFields ==
    {"tenant", "label", "status", "stage", "progress", "processed_rows",
     "total_rows", "attempts", "max_attempts", "locked_by", "lease_until",
     "next_retry_at", "next_run_at", "throttle_count", "failure_reason",
     "idempotency_key", "output_result", "events", "created_at", "updated_at"}

\* The update_fields of each save of reconcile; `job` is the row re-read.
ReconcileFields(cat, job) ==
    CASE cat = "throttled" -> {"status", "next_run_at", "updated_at"}
      [] cat = "failed" /\ job.attempts >= job.max_attempts ->
             {"status", "next_retry_at", "next_run_at", "events", "updated_at"}
      [] cat = "failed" ->
             {"status", "stage", "progress", "processed_rows", "next_retry_at",
              "next_run_at", "locked_by", "lease_until", "events", "updated_at"}
      [] OTHER -> AllFields

\* Whether the loop body ends with proc.delay(jid).
ReconcileEnqueues(cat, job) ==
    cat = "throttled" \/ (cat = "failed" /\ job.attempts < job.max_attempts)

NextCategory(cat) ==
    CASE cat = "pending" -> "throttled"
      [] cat = "throttled" -> "failed"
      [] cat = "failed" -> "expired"
      [] OTHER -> "idle"

\* ------------------------------------------------------- views.py (per row)
\* Each operator gives the object a view holds when it calls job.save(),
\* from the row get_object() (or the query of lease) returned.

\* JobViewSet.lease on the row it selected.
ViewLease(job, worker_id, seconds, clock) ==
    add_event(
        [job EXCEPT !.status = "RUNNING", !.stage = "PROCESSING",
                    !.progress = Max(@, 5),
                    !.processed_rows = Max(@, FivePercent(job.total_rows)),
                    !.attempts = Max(@, 1), !.locked_by = worker_id,
                    !.lease_until = clock + seconds],
        "LEASED", "", clock)

\* JobViewSet.progress; stage = Null when the body has none.
ViewProgress(job, progress, processed_rows, stage, clock) ==
    add_event(
        [job EXCEPT !.progress = progress, !.processed_rows = processed_rows,
                    !.stage = IF stage = Null THEN @ ELSE stage],
        "PROGRESS_UPDATED", "", clock)

\* JobViewSet.complete; given = the body carries a non-empty output_result.
ViewComplete(job, given, clock) ==
    add_event(
        [job EXCEPT !.status = "DONE", !.stage = "DONE", !.progress = 100,
                    !.processed_rows = job.total_rows, !.locked_by = Null,
                    !.lease_until = NoTime,
                    !.output_result = IF given THEN "given" ELSE "built"],
        "DONE", "", clock)

\* JobViewSet.fail.
ViewFail(job, reason, retry_in, clock) ==
    LET j1 == [job EXCEPT !.attempts = @ + 1, !.failure_reason = reason,
                          !.locked_by = Null, !.lease_until = NoTime]
    IN IF j1.attempts >= j1.max_attempts
       THEN add_event(add_event([j1 EXCEPT !.status = "DLQ"], "FAILED", reason, clock),
                      "MOVED_TO_DLQ", "", clock)
       ELSE add_event(add_event([j1 EXCEPT !.status = "FAILED",
                                           !.next_retry_at = clock + retry_in],
                                "FAILED", reason, clock),
                      "RETRY_SCHEDULED", "", clock)

\* RetryAllowed, had it let DLQ jobs through as well.
RetryAllowedWide(job) == job.status \in {"FAILED", "DONE", "DLQ"}

\* JobViewSet.retry and JobViewSet.replay, with their guards.
RetryAllowed(job) == job.status \in {"FAILED", "DONE"}

ViewRetry(job, clock) ==
    add_event(
        [job EXCEPT !.status = "PENDING", !.stage = "VALIDATING", !.progress = 0,
                    !.processed_rows = 0, !.attempts = 0, !.failure_reason = Null,
                    !.next_retry_at = NoTime, !.locked_by = Null,
                    !.lease_until = NoTime, !.output_result = "empty"],
        "SUBMITTED", "retried", clock)

ReplayAllowed(job) == job.status = "DLQ"

ViewReplay(job, clock) ==
    add_event(
        [job EXCEPT !.status = "PENDING", !.stage = "VALIDATING", !.progress = 0,
                    !.processed_rows = 0, !.attempts = 0, !.failure_reason = Null,
                    !.next_retry_at = NoTime, !.locked_by = Null,
                    !.lease_until = NoTime],
        "SUBMITTED", "replayed", clock)

\* _advance_job, which list, retrieve and stats run on every row they read
\* (AUTO_ADVANCE is true unless JOB_AUTO_ADVANCE says otherwise): whether it
\* saves, and the object it saves; increment is random.randint(5, 12).
AdvanceUpdates(job, clock) ==
    \/ job.status = "PENDING" /\ clock - job.created_at >= AUTO_ADVANCE_DELAY_SECONDS
    \/ job.status = "RUNNING"

advance_job(job, increment, clock) ==
    IF job.status = "PENDING"
    THEN IF clock - job.created_at >= AUTO_ADVANCE_DELAY_SECONDS
         THEN add_event(add_event(
                [job EXCEPT !.status = "RUNNING", !.stage = "PROCESSING",
                            !.progress = Max(@, 5),
                            !.processed_rows = Max(@, FivePercent(job.total_rows)),
                            !.attempts = Max(@, 1),
                            !.locked_by = IF @ = Null THEN "worker-tenant" ELSE @,
                            !.lease_until = clock + DEFAULT_LEASE_SECONDS],
                "LEASED", "", clock), "PROGRESS_UPDATED", "", clock)
         ELSE job
    ELSE IF job.status = "RUNNING"
    THEN LET new_progress == Min(job.progress + increment, 100)
         IN IF new_progress >= 100
            THEN add_event(
                   [job EXCEPT !.status = "DONE", !.stage = "DONE",
                               !.progress = 100,
                               !.processed_rows = job.total_rows,
                               !.locked_by = Null, !.lease_until = NoTime,
                               !.output_result = "built"],
                   "DONE", "", clock)
            ELSE add_event(
                   [job EXCEPT !.progress = new_progress,
                               !.processed_rows = (job.total_rows * new_progress) \div 100,
                               !.stage = IF new_progress > 75 THEN "FINALIZING"
                                         ELSE IF @ = "VALIDATING" THEN "PROCESSING"
                                         ELSE @],
                   "PROGRESS_UPDATED", "", clock)
    ELSE job
\* ------------------------------------------------------------------ state

Runners == {"r1", "r2"}
Reqs == {"q1", "q2"}

VARIABLES
    jobs,     \* the Job table: a sequence of rows, a row's id is its index
    now,      \* the wall clock, in seconds
    queue,    \* the broker's "jobs" queue: how many proc messages per job id
    run,      \* each Celery worker's place in proc
    rec,      \* the reconcile task's place in its pass
    req,      \* each HTTP request in flight: the object its view holds
    resp      \* each request slot's last response (status code, job id)

vars == <<jobs, now, queue, run, rec, req, resp>>

JobIds == 1..Len(jobs)

NoObject == [status |-> "NONE"]

IdleRunner ==
    [pc |-> "idle", jid |-> 0, pnow |-> 0, running_now |-> 0, progress |-> 0,
     index |-> 0]

IdleReconciler ==
    [cat |-> "idle", now |-> 0, todo |-> {}, jid |-> 0, obj |-> NoObject]

IdleRequest == [kind |-> "idle", jid |-> 0, obj |-> NoObject]

NoResponse == [code |-> 0, id |-> 0]

\* The row lock of select_for_update: held from proc's first read to its save.
Locked(j) == \E r \in Runners : run[r].pc = "locked" /\ run[r].jid = j

\* RunningIn, had the query left the tenant out.
RunningInAnyTenant(table, j) ==
    Cardinality({k \in DOMAIN table : k # j /\ table[k].status = "RUNNING"})

\* Job.objects.filter(tenant=..., status=RUNNING).exclude(id=...).count()
\* on a table.
RunningIn(table, j) ==
    Cardinality({k \in DOMAIN table : k # j /\ table[k].tenant = table[j].tenant
                                      /\ table[k].status = "RUNNING"})

\* That count on the rows as they are when proc reads them.
RunningOthers(j) == RunningIn(jobs, j)

\* The table is one of `tables` at time `start`; nothing is in flight.
InitWith(tables, start) ==
    /\ jobs \in tables
    /\ now = start
    /\ queue = [j \in 1..MaxJobs |-> 0]
    /\ run = [r \in Runners |-> IdleRunner]
    /\ rec = IdleReconciler
    /\ req = [q \in Reqs |-> IdleRequest]
    /\ resp = [q \in Reqs |-> NoResponse]

\* The rows that n submits by `tenant` at time `at` leave, each with one of
\* `attempts` as its max_attempts.
Submitted(n, tenant, attempts, at) ==
    {[j \in 1..n |-> NewJob(tenant, "A", 1, m[j], Null, at)] :
        m \in [1..n -> attempts]}

\* ------------------------------------------------------------------ clock

\* The clock moves by one of `steps`, up to MaxScans scan periods.
Tick(steps) ==
    /\ \E d \in steps :
         /\ now + d <= MaxScans * JOB_RETRY_SCAN_SECONDS
         /\ now' = now + d
    /\ UNCHANGED <<jobs, queue, run, rec, req, resp>>

\* ------------------------------------------------------ JobViewSet.create

\* Existing, had the lookup found nothing.
ExistingSkipped(tenant, key) == {}

\* The lookup by (tenant, idempotency_key) at the head of create.
Existing(tenant, key) ==
    {j \in JobIds : jobs[j].tenant = tenant /\ jobs[j].idempotency_key = key}

\* create with the validated body `in`, up to its lookup: the existing row
\* is the answer (200, the row as it is), or the request goes on to insert.
CreateLookup(q, in) ==
    /\ req[q].kind = "idle"
    /\ Len(jobs) + Cardinality({p \in Reqs : req[p].kind = "create"}) < MaxJobs
    /\ IF in.key # Null /\ Existing(in.tenant, in.key) # {}
       THEN /\ \E j \in Existing(in.tenant, in.key) :
                 resp' = [resp EXCEPT ![q] = [code |-> 200, id |-> j]]
            /\ UNCHANGED req
       ELSE /\ req' = [req EXCEPT ![q] =
                 [kind |-> "create", jid |-> 0,
                  obj |-> NewJob(in.tenant, in.label, in.total_rows,
                                 in.max_attempts, in.key, now)]]
            /\ resp' = [resp EXCEPT ![q] = NoResponse]
    /\ UNCHANGED <<jobs, now, queue, run, rec>>

\* inputs: the validated bodies to choose from.
CreateCheck(q, inputs) == \E in \in inputs : CreateLookup(q, in)

\* The INSERT of create and its commit: unique_tenant_idempotency_key
\* rejects a second row of the pair, and the IntegrityError is not caught
\* (the answer is a 500).
CreateInsert(q) ==
    /\ req[q].kind = "create"
    /\ LET o == req[q].obj
           row == NewJob(o.tenant, o.label, o.total_rows, o.max_attempts,
                         o.idempotency_key, now)
       IN IF o.idempotency_key # Null
             /\ Existing(o.tenant, o.idempotency_key) # {}
          THEN /\ resp' = [resp EXCEPT ![q] = [code |-> 500, id |-> 0]]
               /\ UNCHANGED jobs
          ELSE /\ jobs' = Append(jobs, row)
               /\ resp' = [resp EXCEPT ![q] = [code |-> 201, id |-> Len(jobs) + 1]]
    /\ req' = [req EXCEPT ![q] = IdleRequest]
    /\ UNCHANGED <<now, queue, run, rec>>

\* ------------------------------------------- the views that save one row
\* A view reads its row (get_object, or the query of lease), changes the
\* object and calls save(): every column of the object is written over
\* whatever the row holds by then.  An UPDATE waits for a row lock, so the
\* save does not happen while proc holds the row.  With `atomic` the read
\* and the save are one step (no other write comes between them); without,
\* the save is the later step ViewSave.  A row takes calls while its log
\* has fewer than `limit` events: MaxEvents, unless a specification that
\* follows one row further says otherwise.

Call(q, kind, j, obj, atomic, limit) ==
    /\ req[q].kind = "idle"
    /\ Len(jobs[j].events) < limit
    /\ IF atomic
       THEN /\ ~Locked(j)
            /\ jobs' = [jobs EXCEPT ![j] = Saved(obj, now)]
            /\ resp' = [resp EXCEPT ![q] = [code |-> 200, id |-> j]]
            /\ UNCHANGED req
       ELSE /\ req' = [req EXCEPT ![q] = [kind |-> kind, jid |-> j, obj |-> obj]]
            /\ UNCHANGED <<jobs, resp>>
    /\ UNCHANGED <<now, queue, run, rec>>

Begin(q, kind, j, obj, atomic) == Call(q, kind, j, obj, atomic, MaxEvents)

\* The row lease selects for `tenant`: its oldest PENDING one.
LeaseCandidates(tenant) ==
    LET P == {j \in JobIds : jobs[j].tenant = tenant /\ jobs[j].status = "PENDING"}
    IN {j \in P : \A k \in P : jobs[j].created_at <= jobs[k].created_at}

LeaseWithin(q, workers, lease_choices, atomic, limit) ==
    \E tenant \in Tenants, worker_id \in workers, seconds \in lease_choices :
      \E j \in LeaseCandidates(tenant) :
        Call(q, "lease", j, ViewLease(jobs[j], worker_id, seconds, now), atomic, limit)

LeaseRead(q, workers, lease_choices, atomic) ==
    LeaseWithin(q, workers, lease_choices, atomic, MaxEvents)

ProgressRead(q, progress_choices, stages, atomic) ==
    \E j \in JobIds, progress \in progress_choices, stage \in stages :
      Begin(q, "progress", j,
            ViewProgress(jobs[j], progress, (jobs[j].total_rows * progress) \div 100,
                         stage, now), atomic)

CompleteWithin(q, givens, atomic, limit) ==
    \E j \in JobIds, given \in givens :
      Call(q, "complete", j, ViewComplete(jobs[j], given, now), atomic, limit)

CompleteRead(q, givens, atomic) == CompleteWithin(q, givens, atomic, MaxEvents)

FailWithin(q, retry_choices, atomic, limit) ==
    \E j \in JobIds, retry_in \in retry_choices :
      Call(q, "fail", j, ViewFail(jobs[j], "worker error", retry_in, now), atomic, limit)

FailRead(q, retry_choices, atomic) == FailWithin(q, retry_choices, atomic, MaxEvents)

RetryWithin(q, atomic, limit) ==
    \E j \in JobIds :
      /\ RetryAllowed(jobs[j])
      /\ Call(q, "retry", j, ViewRetry(jobs[j], now), atomic, limit)

RetryRead(q, atomic) == RetryWithin(q, atomic, MaxEvents)

ReplayWithin(q, atomic, limit) ==
    \E j \in JobIds :
      /\ ReplayAllowed(jobs[j])
      /\ Call(q, "replay", j, ViewReplay(jobs[j], now), atomic, limit)

ReplayRead(q, atomic) == ReplayWithin(q, atomic, MaxEvents)

\* retry and replay on a row their guard turns down: the ValidationError
\* (views.py 392-393, 412-413) is raised before the object is touched, and
\* the answer is a 400.
Rejected(q, j) ==
    /\ req[q].kind = "idle"
    /\ resp' = [resp EXCEPT ![q] = [code |-> 400, id |-> j]]
    /\ UNCHANGED <<jobs, now, queue, run, rec, req>>

RetryReject(q) == \E j \in JobIds : ~RetryAllowed(jobs[j]) /\ Rejected(q, j)

ReplayReject(q) == \E j \in JobIds : ~ReplayAllowed(jobs[j]) /\ Rejected(q, j)

\* retrieve (and list and stats, row by row): _advance_job saves only when
\* it changed the object.
RetrieveRead(q, increments, atomic) ==
    \E j \in JobIds, increment \in increments :
      /\ AdvanceUpdates(jobs[j], now)
      /\ Begin(q, "retrieve", j, advance_job(jobs[j], increment, now), atomic)

\* job.save() of the view in flight.
ViewSave(q) ==
    /\ req[q].kind \notin {"idle", "create"}
    /\ ~Locked(req[q].jid)
    /\ jobs' = [jobs EXCEPT ![req[q].jid] = Saved(req[q].obj, now)]
    /\ resp' = [resp EXCEPT ![q] = [code |-> 200, id |-> req[q].jid]]
    /\ req' = [req EXCEPT ![q] = IdleRequest]
    /\ UNCHANGED <<now, queue, run, rec>>

\* ------------------------------------------------------------------- proc

\* A proc message for any job id: proc is a task anyone with the broker can
\* send (the tests call it on rows they made themselves).  At most QueueCap
\* such messages wait per job.
Enqueue ==
    /\ \E j \in JobIds :
         /\ queue[j] < QueueCap
         /\ queue' = [queue EXCEPT ![j] = @ + 1]
    /\ UNCHANGED <<jobs, now, run, rec, req, resp>>

\* A worker takes a message, opens the transaction and locks the row
\* (tasks.py 114-116); it has then read the row and, on the path that
\* reaches it, the count of the tenant's other RUNNING rows.
ProcStart(r) ==
    /\ run[r].pc = "idle"
    /\ \E j \in JobIds :
         /\ queue[j] > 0
         /\ ~Locked(j)
         /\ queue' = [queue EXCEPT ![j] = @ - 1]
         /\ run' = [run EXCEPT ![r] =
               [IdleRunner EXCEPT !.pc = "locked", !.jid = j, !.pnow = now,
                                  !.running_now = RunningOthers(j)]]
    /\ UNCHANGED <<jobs, now, rec, req, resp>>

\* The save and the commit of the first transaction (tasks.py 118-168).
ProcCommit(r) ==
    /\ run[r].pc = "locked"
    /\ LET j == run[r].jid
           o == ProcLeaseOutcome(jobs[j], run[r].pnow, run[r].running_now)
           row == ProcLease(jobs[j], run[r].pnow, now, run[r].running_now)
       IN /\ jobs' = [jobs EXCEPT ![j] = row]
          /\ run' = [run EXCEPT ![r] =
                IF o = "leased"
                THEN [@ EXCEPT !.pc = IF row.total_rows > 0 THEN "row_check"
                                      ELSE "finish",
                               !.progress = row.progress]
                ELSE IdleRunner]
    /\ UNCHANGED <<now, queue, rec, req, resp>>

\* The row loop's test that the row is still RUNNING (tasks.py 193-194).
ProcRowCheck(r) ==
    /\ run[r].pc = "row_check"
    /\ run' = [run EXCEPT ![r] =
          IF jobs[run[r].jid].status = "RUNNING"
          THEN [@ EXCEPT !.pc = "row_update"]
          ELSE IdleRunner]
    /\ UNCHANGED <<jobs, now, queue, rec, req, resp>>

\* The row loop's update after the row's delay (tasks.py 201-215).
ProcRowWrite(r) ==
    /\ run[r].pc = "row_update"
    /\ LET j == run[r].jid
           processed == run[r].index + 1
       IN /\ ~Locked(j)
          /\ jobs' = [jobs EXCEPT ![j] =
                ProcRowUpdate(@, processed,
                    RowProgress(run[r].progress, processed, jobs[j].total_rows), now)]
          /\ run' = [run EXCEPT ![r] =
                [@ EXCEPT !.index = processed,
                          !.pc = IF processed = jobs[j].total_rows THEN "finish"
                                 ELSE "row_check"]]
    /\ UNCHANGED <<now, queue, rec, req, resp>>

\* The pipeline succeeded: the completing transaction (tasks.py 217-232).
ProcFinish(r) ==
    /\ run[r].pc = "finish"
    /\ ~Locked(run[r].jid)
    /\ jobs' = [jobs EXCEPT ![run[r].jid] = ProcComplete(@, now)]
    /\ run' = [run EXCEPT ![r] = IdleRunner]
    /\ UNCHANGED <<now, queue, rec, req, resp>>

\* Anything inside the try block raised: the handler's transaction
\* (tasks.py 233-243).
ProcRaise(r) ==
    /\ run[r].pc \in {"row_check", "row_update", "finish"}
    /\ ~Locked(run[r].jid)
    /\ jobs' = [jobs EXCEPT ![run[r].jid] = ProcFailure(@, now)]
    /\ run' = [run EXCEPT ![r] = IdleRunner]
    /\ UNCHANGED <<now, queue, rec, req, resp>>

\* -------------------------------------------------------------- reconcile

Listing(cat, rnow) == {j \in JobIds : ReconcileListed(cat, jobs[j], rnow)}

\* The sets that are `rows` without k of its members.
RECURSIVE Without(_, _)
Without(rows, k) ==
    IF k = 0 THEN {rows}
    ELSE UNION {Without(rows \ {x}, k - 1) : x \in rows}

\* query[:50]: the rows a loop is given.  pending_ready is ordered by
\* updated_at, so its slice holds no row newer than one it leaves out; the
\* other three queries have no order and the slice is any 50 of the rows.
Sliced(cat, rnow) ==
    LET listed == Listing(cat, rnow)
    IN IF Cardinality(listed) <= RECONCILE_BATCH THEN {listed}
       ELSE {rows \in Without(listed, Cardinality(listed) - RECONCILE_BATCH) :
               cat = "pending" =>
                 \A x \in listed \ rows : \A y \in rows :
                    jobs[y].updated_at <= jobs[x].updated_at}

\* The task starts: now is taken, and the first loop's query runs.
ReconcileStart ==
    /\ rec.cat = "idle"
    /\ \E rows \in Sliced("pending", now) :
         rec' = [IdleReconciler EXCEPT !.cat = "pending", !.now = now,
                                       !.todo = rows]
    /\ UNCHANGED <<jobs, now, queue, run, req, resp>>

\* Celery beat: the clock reaches the next multiple of
\* JOB_RETRY_SCAN_SECONDS and the task starts (the pass before has ended);
\* MaxBeats scan periods are followed.
Beat ==
    /\ rec.cat = "idle"
    /\ LET t == ((now \div JOB_RETRY_SCAN_SECONDS) + 1) * JOB_RETRY_SCAN_SECONDS
       IN /\ t <= MaxBeats * JOB_RETRY_SCAN_SECONDS
          /\ now' = t
          /\ \E rows \in Sliced("pending", t) :
               rec' = [IdleReconciler EXCEPT !.cat = "pending", !.now = t,
                                             !.todo = rows]
    /\ UNCHANGED <<jobs, queue, run, req, resp>>

\* The rows a loop may take next: pending_ready is ordered by updated_at,
\* the other three queries have no order.
NextRows ==
    IF rec.cat = "pending"
    THEN {j \in rec.todo : \A k \in rec.todo : jobs[j].updated_at <= jobs[k].updated_at}
    ELSE rec.todo

\* The loop body's save over the stored row, and its proc.delay.
ReconcileWrite(cat, j, obj) ==
    /\ ~Locked(j)
    /\ jobs' = [jobs EXCEPT ![j] =
          SavedFields(@, obj, ReconcileFields(cat, obj), now)]
    /\ queue' = [queue EXCEPT ![j] =
          IF ReconcileEnqueues(cat, obj) THEN @ + 1 ELSE @]

\* A loop body re-reads its row by id and status and changes the object;
\* with `atomic` it saves in the same step.
ReconcileRead(atomic) ==
    /\ rec.cat # "idle"
    /\ rec.jid = 0
    /\ \E j \in NextRows :
         LET obj == ReconcileObject(rec.cat, jobs[j], rec.now, now)
         IN IF ~ReconcileActs(rec.cat, jobs[j], rec.now)
            THEN /\ rec' = [rec EXCEPT !.todo = @ \ {j}]
                 /\ UNCHANGED <<jobs, queue>>
            ELSE IF atomic
            THEN /\ ReconcileWrite(rec.cat, j, obj)
                 /\ rec' = [rec EXCEPT !.todo = @ \ {j}]
            ELSE /\ rec' = [rec EXCEPT !.todo = @ \ {j}, !.jid = j, !.obj = obj]
                 /\ UNCHANGED <<jobs, queue>>
    /\ UNCHANGED <<now, run, req, resp>>

ReconcileSave ==
    /\ rec.jid # 0
    /\ ReconcileWrite(rec.cat, rec.jid, rec.obj)
    /\ rec' = [rec EXCEPT !.jid = 0, !.obj = NoObject]
    /\ UNCHANGED <<now, run, req, resp>>

\* A loop is through its rows: the next loop's query runs, or the task ends.
ReconcileNext ==
    /\ rec.cat # "idle"
    /\ rec.jid = 0
    /\ rec.todo = {}
    /\ IF NextCategory(rec.cat) = "idle" THEN rec' = IdleReconciler
       ELSE \E rows \in Sliced(NextCategory(rec.cat), rec.now) :
              rec' = [rec EXCEPT !.cat = NextCategory(rec.cat), !.todo = rows]
    /\ UNCHANGED <<jobs, now, queue, run, req, resp>>

\* ------------------------------------------------------------------ system

\* One job and everything that can happen to it: every call on a row, the
\* Runner on one worker, the Reconciler, the clock.
Init == InitWith(Submitted(1, "t1", {1, 2}, 0), 0)

Next ==
    \/ Tick({JOB_RETRY_SCAN_SECONDS})
    \/ \E q \in {"q1"} : LeaseRead(q, {"w1"}, {MIN_LEASE_SECONDS}, TRUE)
    \/ \E q \in {"q1"} : ProgressRead(q, {50}, {Null}, TRUE)
    \/ \E q \in {"q1"} : CompleteRead(q, {FALSE}, TRUE)
    \/ \E q \in {"q1"} : FailRead(q, {MIN_RETRY_IN_SECONDS}, TRUE)
    \/ \E q \in {"q1"} : RetryRead(q, TRUE)
    \/ \E q \in {"q1"} : ReplayRead(q, TRUE)
    \/ \E q \in {"q1"} : RetrieveRead(q, {12}, TRUE)
    \/ Enqueue
    \/ \E r \in {"r1"} : ProcStart(r)
    \/ \E r \in {"r1"} : ProcCommit(r)
    \/ \E r \in {"r1"} : ProcRowCheck(r)
    \/ \E r \in {"r1"} : ProcRowWrite(r)
    \/ \E r \in {"r1"} : ProcFinish(r)
    \/ \E r \in {"r1"} : ProcRaise(r)
    \/ ReconcileStart
    \/ ReconcileRead(TRUE)
    \/ ReconcileNext

Spec == Init /\ [][Next]_vars

\* Three jobs of one tenant: the lease call, the Runner on one worker, the
\* Reconciler, and a clock that moves by the throttle backoff.
InitCap == InitWith(Submitted(CONCURRENT_JOBS_LIMIT + 1, "t1", {DEFAULT_MAX_ATTEMPTS}, 0), 0)

NextCap ==
    \/ Tick({JOB_THROTTLE_BACKOFF_SECONDS})
    \/ \E q \in {"q1"} : LeaseRead(q, {"w1"}, {MIN_LEASE_SECONDS}, TRUE)
    \/ Enqueue
    \/ \E r \in {"r1"} : ProcStart(r)
    \/ \E r \in {"r1"} : ProcCommit(r)
    \/ \E r \in {"r1"} : ProcRowCheck(r)
    \/ \E r \in {"r1"} : ProcRowWrite(r)
    \/ \E r \in {"r1"} : ProcFinish(r)
    \/ ReconcileStart
    \/ ReconcileRead(TRUE)
    \/ ReconcileNext

SpecCap == InitCap /\ [][NextCap]_vars

\* The table after three submits of `tenant` at time `at`, two lease calls and
\* the Runner's visit to the third job: two RUNNING rows and a THROTTLED one.
Held(tenant, max_attempts, at) ==
    [j \in 1..(CONCURRENT_JOBS_LIMIT + 1) |->
        LET row == NewJob(tenant, "A", 1, max_attempts, Null, at)
        IN IF j <= CONCURRENT_JOBS_LIMIT
           THEN Saved(ViewLease(row, "w1", MIN_LEASE_SECONDS, at), at)
           ELSE ProcLease(row, at, at, CONCURRENT_JOBS_LIMIT)]

\* The worker calls on that table; a row takes them until its log has one
\* event more than MaxEvents.
InitHeld == InitWith({Held("t1", DEFAULT_MAX_ATTEMPTS, 0)}, 0)

NextHeld ==
    \/ \E q \in {"q1"} : LeaseWithin(q, {"w1"}, {MIN_LEASE_SECONDS}, TRUE, MaxEvents + 1)
    \/ \E q \in {"q1"} : CompleteWithin(q, {FALSE}, TRUE, MaxEvents + 1)
    \/ \E q \in {"q1"} : FailWithin(q, {MIN_RETRY_IN_SECONDS}, TRUE, MaxEvents + 1)
    \/ \E q \in {"q1"} : RetryWithin(q, TRUE, MaxEvents + 1)

SpecHeld == InitHeld /\ [][NextHeld]_vars

\* A throttled job with one attempt allowed, when its backoff has elapsed:
\* the Reconciler's loop bodies in two steps (the re-read, then the save),
\* and the calls and the Runner between them.
InitStale == InitWith({Held("t1", 1, 0)}, JOB_THROTTLE_BACKOFF_SECONDS)

NextStale ==
    \/ ReconcileStart
    \/ ReconcileRead(FALSE)
    \/ ReconcileSave
    \/ ReconcileNext
    \/ \E q \in {"q1"} : LeaseWithin(q, {"w1"}, {MIN_LEASE_SECONDS}, TRUE, MaxEvents + 1)
    \/ \E q \in {"q1"} : CompleteWithin(q, {FALSE}, TRUE, MaxEvents + 1)
    \/ \E q \in {"q1"} : RetryWithin(q, TRUE, MaxEvents + 1)
    \/ \E r \in {"r1"} : ProcStart(r)
    \/ \E r \in {"r1"} : ProcCommit(r)
    \/ \E r \in {"r1"} : ProcRowCheck(r)
    \/ \E r \in {"r1"} : ProcRowWrite(r)
    \/ \E r \in {"r1"} : ProcFinish(r)

SpecStale == InitStale /\ [][NextStale]_vars

\* The table after three submits of `tenant` at time `at`, the Runner's lease
\* of the third job and two lease calls: three RUNNING rows.
Overrun(tenant, at) ==
    [j \in 1..(CONCURRENT_JOBS_LIMIT + 1) |->
        LET row == NewJob(tenant, "A", 1, DEFAULT_MAX_ATTEMPTS, Null, at)
        IN IF j <= CONCURRENT_JOBS_LIMIT
           THEN Saved(ViewLease(row, "w1", MIN_LEASE_SECONDS, at), at)
           ELSE ProcLease(row, at, at, 0)]

\* That table with worker r1 in the row loop of the third job, worker r2
\* taking the messages, and the complete and retry calls coming in.
InitLate ==
    /\ jobs = Overrun("t1", 0)
    /\ now = 0
    /\ queue = [j \in 1..MaxJobs |-> 0]
    /\ rec = IdleReconciler
    /\ req = [q \in Reqs |-> IdleRequest]
    /\ resp = [q \in Reqs |-> NoResponse]
    /\ run = [r \in Runners |->
                IF r = "r1"
                THEN [IdleRunner EXCEPT !.pc = "row_check",
                                        !.jid = CONCURRENT_JOBS_LIMIT + 1,
                                        !.pnow = 0, !.progress = 5]
                ELSE IdleRunner]

NextLate ==
    \/ Enqueue
    \/ \E r \in {"r2"} : ProcStart(r)
    \/ \E r \in {"r2"} : ProcCommit(r)
    \/ \E r \in Runners : ProcRowCheck(r)
    \/ \E r \in Runners : ProcRowWrite(r)
    \/ \E r \in Runners : ProcFinish(r)
    \/ \E q \in {"q1"} : CompleteWithin(q, {FALSE}, TRUE, MaxEvents + 1)
    \/ \E q \in {"q1"} : RetryWithin(q, TRUE, MaxEvents + 1)

SpecLate == InitLate /\ [][NextLate]_vars

\* One job whose handlers interleave: each call and each Reconciler loop
\* body reads, then saves in a later step; the Runner fails or succeeds; the
\* clock moves past the pending timeout in one step.
InitRace == InitWith(Submitted(1, "t1", {2}, 0), 0)

NextRace ==
    \/ Tick({JOB_PENDING_TIMEOUT_SECONDS + JOB_RETRY_SCAN_SECONDS})
    \/ \E q \in {"q1"} : LeaseRead(q, {"w1"}, {MIN_LEASE_SECONDS}, FALSE)
    \/ \E q \in {"q1"} : FailRead(q, {MIN_RETRY_IN_SECONDS}, FALSE)
    \/ \E q \in {"q1"} : RetryRead(q, FALSE)
    \/ \E q \in {"q1"} : ViewSave(q)
    \/ Enqueue
    \/ \E r \in {"r1"} : ProcStart(r)
    \/ \E r \in {"r1"} : ProcCommit(r)
    \/ \E r \in {"r1"} : ProcRowCheck(r)
    \/ \E r \in {"r1"} : ProcRowWrite(r)
    \/ \E r \in {"r1"} : ProcFinish(r)
    \/ \E r \in {"r1"} : ProcRaise(r)
    \/ ReconcileStart
    \/ ReconcileRead(FALSE)
    \/ ReconcileSave
    \/ ReconcileNext

SpecRace == InitRace /\ [][NextRace]_vars

\* The table Held after a complete call on its first job: a slot is free.
Freed(tenant, max_attempts, at) ==
    [Held(tenant, max_attempts, at) EXCEPT ![1] = Saved(ViewComplete(@, FALSE, at), at)]

\* A DONE job, a RUNNING job and a throttled third of one tenant, left to the
\* Reconciler on every beat and the Runner on one worker whose pipeline
\* succeeds.
\* Celery beat sends reconcile every period and a worker that has taken a
\* task runs it to its end, so none of their steps stays enabled forever
\* without being taken.
InitRelease == InitWith({Freed("t1", DEFAULT_MAX_ATTEMPTS, 0)}, 0)

NextRelease ==
    \/ Beat
    \/ ReconcileRead(TRUE)
    \/ ReconcileNext
    \/ \E r \in {"r1"} : ProcStart(r)
    \/ \E r \in {"r1"} : ProcCommit(r)
    \/ \E r \in {"r1"} : ProcRowCheck(r)
    \/ \E r \in {"r1"} : ProcRowWrite(r)
    \/ \E r \in {"r1"} : ProcFinish(r)

SpecRelease ==
    /\ InitRelease
    /\ [][NextRelease]_vars
    /\ WF_vars(Beat)
    /\ WF_vars(ReconcileRead(TRUE))
    /\ WF_vars(ReconcileNext)
    /\ WF_vars(ProcStart("r1"))
    /\ WF_vars(ProcCommit("r1"))
    /\ WF_vars(ProcRowCheck("r1"))
    /\ WF_vars(ProcRowWrite("r1"))
    /\ WF_vars(ProcFinish("r1"))

\* Two RUNNING jobs and a throttled third, with one or two attempts allowed,
\* or one fresh job: the tenant's retry and replay calls, accepted or turned
\* down, among the worker calls that take a row through every status.
InitGuard ==
    InitWith({Held("t1", m, 0) : m \in 1..2} \cup Submitted(1, "t1", {1}, 0), 0)

NextGuard ==
    \/ \E q \in {"q1"} : LeaseWithin(q, {"w1"}, {MIN_LEASE_SECONDS}, TRUE, MaxEvents + 1)
    \/ \E q \in {"q1"} : CompleteWithin(q, {FALSE}, TRUE, MaxEvents + 1)
    \/ \E q \in {"q1"} : FailWithin(q, {MIN_RETRY_IN_SECONDS}, TRUE, MaxEvents + 1)
    \/ \E q \in {"q1"} : RetryWithin(q, TRUE, MaxEvents + 1)
    \/ \E q \in {"q1"} : ReplayWithin(q, TRUE, MaxEvents + 1)
    \/ \E q \in {"q1"} : RetryReject(q)
    \/ \E q \in {"q1"} : ReplayReject(q)

SpecGuard == InitGuard /\ [][NextGuard]_vars

\* One PENDING job that two lease calls and two Runner activations go for at
\* the same time: each call reads, then saves in a later step.
InitLease == InitWith(Submitted(1, "t1", {DEFAULT_MAX_ATTEMPTS}, 0), 0)

NextLease ==
    \/ \E q \in Reqs : LeaseRead(q, {"w1", "w2"}, {MIN_LEASE_SECONDS}, FALSE)
    \/ \E q \in Reqs : ViewSave(q)
    \/ Enqueue
    \/ \E r \in Runners : ProcStart(r)
    \/ \E r \in Runners : ProcCommit(r)
    \/ \E r \in Runners : ProcRowCheck(r)
    \/ \E r \in Runners : ProcRowWrite(r)
    \/ \E r \in Runners : ProcFinish(r)

SpecLease == InitLease /\ [][NextLease]_vars

\* The table after three submits of `tenant` at time `at` and two lease
\* calls: two RUNNING rows and a PENDING one.
Taken(tenant, max_attempts, at) ==
    [j \in 1..(CONCURRENT_JOBS_LIMIT + 1) |->
        LET row == NewJob(tenant, "A", 1, max_attempts, Null, at)
        IN IF j <= CONCURRENT_JOBS_LIMIT
           THEN Saved(ViewLease(row, "w1", MIN_LEASE_SECONDS, at), at)
           ELSE row]

\* That table, or the table Held, one backoff later, with the Runner on one
\* worker: proc messages reach the third job, never throttled or throttled
\* once and ready, with the tenant's slots taken or one freed by a complete
\* call.
InitBackoff ==
    InitWith({Taken("t1", DEFAULT_MAX_ATTEMPTS, 0), Held("t1", DEFAULT_MAX_ATTEMPTS, 0)},
             JOB_THROTTLE_BACKOFF_SECONDS)

NextBackoff ==
    \/ \E q \in {"q1"} : CompleteWithin(q, {FALSE}, TRUE, MaxEvents)
    \/ Enqueue
    \/ \E r \in {"r1"} : ProcStart(r)
    \/ \E r \in {"r1"} : ProcCommit(r)
    \/ \E r \in {"r1"} : ProcRowCheck(r)
    \/ \E r \in {"r1"} : ProcRowWrite(r)
    \/ \E r \in {"r1"} : ProcFinish(r)

SpecBackoff == InitBackoff /\ [][NextBackoff]_vars

\* The table of InitStale, with the fail call in place of complete and
\* retry: a worker reports a failure while the Reconciler holds the row.
NextSpent ==
    \/ ReconcileStart
    \/ ReconcileRead(FALSE)
    \/ ReconcileSave
    \/ ReconcileNext
    \/ \E q \in {"q1"} : LeaseWithin(q, {"w1"}, {MIN_LEASE_SECONDS}, TRUE, MaxEvents + 1)
    \/ \E q \in {"q1"} : FailWithin(q, {MIN_RETRY_IN_SECONDS}, TRUE, MaxEvents + 1)
    \/ \E r \in {"r1"} : ProcStart(r)
    \/ \E r \in {"r1"} : ProcCommit(r)
    \/ \E r \in {"r1"} : ProcRowCheck(r)
    \/ \E r \in {"r1"} : ProcRowWrite(r)
    \/ \E r \in {"r1"} : ProcFinish(r)

SpecSpent == InitStale /\ [][NextSpent]_vars

\* The table Held after a fail call on its second job and a fourth submit:
\* a RUNNING, a FAILED, a THROTTLED and a PENDING row.
Mixed(tenant, max_attempts, at) ==
    Append([Held(tenant, max_attempts, at) EXCEPT
              ![CONCURRENT_JOBS_LIMIT] =
                 Saved(ViewFail(@, "worker", MIN_RETRY_IN_SECONDS, at), at)],
           NewJob(tenant, "A", 1, max_attempts, Null, at))

\* One submit a second by as many tenants, from `at` on, one more than a
\* loop of reconcile takes, and none leased.
Backlog(at) ==
    [j \in 1..(RECONCILE_BATCH + 1) |->
        NewJob("t" \o ToString(j), "A", 1, DEFAULT_MAX_ATTEMPTS, Null, at + j)]

\* The Reconciler alone, once the youngest row of either table has timed
\* out as PENDING and every lease, backoff and retry delay has run out: the
\* task runs as often as it is sent and the clock stands still.
InitTwice ==
    /\ jobs \in {Mixed("t1", m, 0) : m \in 2..DEFAULT_MAX_ATTEMPTS} \cup {Backlog(0)}
    /\ now = RECONCILE_BATCH + 1 + JOB_PENDING_TIMEOUT_SECONDS + 1
    /\ queue = [j \in JobIds |-> 0]
    /\ run = [r \in Runners |-> IdleRunner]
    /\ rec = IdleReconciler
    /\ req = [q \in Reqs |-> IdleRequest]
    /\ resp = [q \in Reqs |-> NoResponse]

NextTwice ==
    \/ ReconcileStart
    \/ ReconcileRead(FALSE)
    \/ ReconcileSave
    \/ ReconcileNext

SpecTwice == InitTwice /\ [][NextTwice]_vars

\* The table Mixed when the retry delay of its FAILED row has run out: the
\* Reconciler, and a worker's fail call that may come between a loop's read
\* of a row and its save.
InitRetry ==
    InitWith({Mixed("t1", m, 0) : m \in 2..(DEFAULT_MAX_ATTEMPTS + 1)},
             MIN_RETRY_IN_SECONDS)

NextRetry ==
    \/ ReconcileStart
    \/ ReconcileRead(FALSE)
    \/ ReconcileSave
    \/ ReconcileNext
    \/ \E q \in {"q1"} : FailWithin(q, {MIN_RETRY_IN_SECONDS}, TRUE, MaxEvents + 1)

SpecRetry == InitRetry /\ [][NextRetry]_vars

\* The table Taken with everything that leases: the tenant's lease call,
\* its read and its save being two steps, the first transaction of the
\* Runner on one worker (the tenant's slots stay taken, so it never gets to
\* the pipeline) and the Reconciler, with the clock moving by the first
\* backoff.
InitEarly == InitWith({Taken("t1", DEFAULT_MAX_ATTEMPTS, 0)}, 0)

NextEarly ==
    \/ Tick({JOB_THROTTLE_BACKOFF_SECONDS})
    \/ \E q \in {"q1"} : LeaseRead(q, {"w1"}, {MIN_LEASE_SECONDS}, FALSE)
    \/ \E q \in {"q1"} : ViewSave(q)
    \/ Enqueue
    \/ \E r \in {"r1"} : ProcStart(r)
    \/ \E r \in {"r1"} : ProcCommit(r)
    \/ ReconcileStart
    \/ ReconcileRead(TRUE)
    \/ ReconcileNext

SpecEarly == InitEarly /\ [][NextEarly]_vars

\* The table Taken one scan period after its leases ran out: the workers
\* report progress, the Reconciler passes, the Runner takes the third job.
InitRenew ==
    InitWith({Taken("t1", DEFAULT_MAX_ATTEMPTS, 0)},
             MIN_LEASE_SECONDS + JOB_RETRY_SCAN_SECONDS)

NextRenew ==
    \/ ReconcileStart
    \/ ReconcileRead(TRUE)
    \/ ReconcileNext
    \/ \E q \in {"q1"} : ProgressRead(q, {50}, {Null}, TRUE)
    \/ Enqueue
    \/ \E r \in {"r1"} : ProcStart(r)
    \/ \E r \in {"r1"} : ProcCommit(r)
    \/ \E r \in {"r1"} : ProcRowCheck(r)
    \/ \E r \in {"r1"} : ProcRowWrite(r)
    \/ \E r \in {"r1"} : ProcFinish(r)

SpecRenew == InitRenew /\ [][NextRenew]_vars

\* Time without end on a bounded clock: the clock reading stays and every
\* stored time moves one scan period into the past.  The code compares a
\* stored time only with the clock or with the clock less the pending
\* timeout, so a time that far in the past can stay where it is.
Earlier(t) ==
    IF t = NoTime THEN NoTime ELSE Max(t - JOB_RETRY_SCAN_SECONDS, 0)

Aged(row) ==
    [row EXCEPT !.lease_until = Earlier(@), !.next_retry_at = Earlier(@),
                !.next_run_at = Earlier(@), !.created_at = Earlier(@),
                !.updated_at = Earlier(@),
                !.events = [i \in DOMAIN @ |-> [@[i] EXCEPT !.ts = Earlier(@)]]]

\* Celery beat, one scan period later: the pass before has ended and the
\* task starts on the aged table.  A Runner that holds a row lock has read
\* its `now` within the clock's range.
Period ==
    /\ rec.cat = "idle"
    /\ \A r \in Runners :
         run[r].pc = "locked" => run[r].pnow >= JOB_RETRY_SCAN_SECONDS
    /\ jobs' = [j \in JobIds |-> Aged(jobs[j])]
    /\ run' = [r \in Runners |-> [run[r] EXCEPT !.pnow = Earlier(@)]]
    /\ now' = now
    /\ \E rows \in Sliced("pending", now)' :
         rec' = [IdleReconciler EXCEPT !.cat = "pending", !.now = now,
                                       !.todo = rows]
    /\ UNCHANGED <<queue, req, resp>>

\* A fresh job nobody enqueued, or a DONE job, a job a worker leased and
\* left, and a throttled third: the Reconciler every period for ever and the
\* Runner on one worker, whose pipeline ends or raises.
\* Celery beat sends reconcile every period and a worker that has taken a
\* task runs it to its end, so none of their steps stays enabled forever
\* without being taken.
InitLive ==
    InitWith({Freed("t1", DEFAULT_MAX_ATTEMPTS - 1, 0)}
               \cup Submitted(1, "t1", 1..DEFAULT_MAX_ATTEMPTS, 0),
             JOB_PENDING_TIMEOUT_SECONDS + JOB_RETRY_SCAN_SECONDS)

NextLive ==
    \/ Period
    \/ ReconcileRead(TRUE)
    \/ ReconcileNext
    \/ \E r \in {"r1"} : ProcStart(r)
    \/ \E r \in {"r1"} : ProcCommit(r)
    \/ \E r \in {"r1"} : ProcRowCheck(r)
    \/ \E r \in {"r1"} : ProcRowWrite(r)
    \/ \E r \in {"r1"} : ProcFinish(r)
    \/ \E r \in {"r1"} : ProcRaise(r)

SpecLive ==
    /\ InitLive
    /\ [][NextLive]_vars
    /\ WF_vars(Period)
    /\ WF_vars(ReconcileRead(TRUE))
    /\ WF_vars(ReconcileNext)
    /\ WF_vars(ProcStart("r1"))
    /\ WF_vars(ProcCommit("r1"))
    /\ WF_vars(ProcRowCheck("r1"))
    /\ WF_vars(ProcRowWrite("r1"))
    /\ WF_vars(ProcFinish("r1"))

\* Two tenants: one with both slots taken and a third job waiting, the other
\* with one fresh job; a proc message for every job, the Runner on one
\* worker, and complete calls that free a slot.
InitTenants ==
    /\ jobs \in {Append(Taken("t1", DEFAULT_MAX_ATTEMPTS, 0),
                         NewJob(b, "A", 1, DEFAULT_MAX_ATTEMPTS, Null, 0)) :
                    b \in Tenants}
    /\ now = 0
    /\ queue = [j \in 1..MaxJobs |-> IF j \in JobIds THEN 1 ELSE 0]
    /\ run = [r \in Runners |-> IdleRunner]
    /\ rec = IdleReconciler
    /\ req = [q \in Reqs |-> IdleRequest]
    /\ resp = [q \in Reqs |-> NoResponse]

NextTenants ==
    \/ \E q \in {"q1"} : CompleteWithin(q, {FALSE}, TRUE, MaxEvents)
    \/ \E r \in {"r1"} : ProcStart(r)
    \/ \E r \in {"r1"} : ProcCommit(r)
    \/ \E r \in {"r1"} : ProcRowCheck(r)
    \/ \E r \in {"r1"} : ProcRowWrite(r)
    \/ \E r \in {"r1"} : ProcFinish(r)

SpecTenants == InitTenants /\ [][NextTenants]_vars

\* proc messages for jobs in every status: the tables of InitGuard one scan
\* period after their last write, the worker calls that move a row on, and
\* the Runner on one worker.
InitSkip ==
    InitWith({Held("t1", m, 0) : m \in 1..2} \cup Submitted(1, "t1", {1}, 0),
             JOB_RETRY_SCAN_SECONDS)

NextSkip ==
    \/ \E q \in {"q1"} : LeaseRead(q, {"w1"}, {MIN_LEASE_SECONDS}, TRUE)
    \/ \E q \in {"q1"} : CompleteRead(q, {FALSE}, TRUE)
    \/ \E q \in {"q1"} : FailRead(q, {MIN_RETRY_IN_SECONDS}, TRUE)
    \/ Enqueue
    \/ \E r \in {"r1"} : ProcStart(r)
    \/ \E r \in {"r1"} : ProcCommit(r)
    \/ \E r \in {"r1"} : ProcRowCheck(r)
    \/ \E r \in {"r1"} : ProcRowWrite(r)
    \/ \E r \in {"r1"} : ProcFinish(r)

SpecSkip == InitSkip /\ [][NextSkip]_vars

\* Submits on an empty table, two requests at a time.
SubmitInputs ==
    {[tenant |-> t, label |-> c[1], key |-> c[2], total_rows |-> 1,
      max_attempts |-> DEFAULT_MAX_ATTEMPTS] :
        t \in Tenants, c \in {<<"A", Null>>, <<"A", "k1">>, <<"B", "k1">>}}

InitSubmit == InitWith({<< >>}, 0)

NextSubmit ==
    \/ \E q \in Reqs : CreateCheck(q, SubmitInputs)
    \/ \E q \in Reqs : CreateInsert(q)

SpecSubmit == InitSubmit /\ [][NextSubmit]_vars

\* One job submitted somewhere inside a scan period, the Reconciler on
\* every beat, and the lease call.
InitScan ==
    \E at \in 0..(JOB_RETRY_SCAN_SECONDS - 1) :
        InitWith(Submitted(1, "t1", 1..DEFAULT_MAX_ATTEMPTS, at), at)

NextScan ==
    \/ Beat
    \/ ReconcileRead(TRUE)
    \/ ReconcileNext
    \/ \E q \in {"q1"} : LeaseRead(q, {"w1"}, {MIN_LEASE_SECONDS}, TRUE)

SpecScan == InitScan /\ [][NextScan]_vars

\* ================================================================= claims

RunningOf(tenant) ==
    {j \in JobIds : jobs[j].tenant = tenant /\ jobs[j].status = "RUNNING"}

\* How many events of `type` a log holds.
CountEvents(events, type) ==
    Cardinality({i \in DOMAIN events : events[i].type = type})

\* C1: in every reachable state the number of RUNNING jobs of any one tenant
\* is at most CONCURRENT_JOBS_LIMIT.
C1_RunningWithinLimit ==
    \A t \in Tenants : Cardinality(RunningOf(t)) <= CONCURRENT_JOBS_LIMIT

\* C2: a job whose status is DLQ keeps that status on every step that is not
\* a replay call on it.
C2_DlqLeftOnlyByReplay ==
    [][\A j \in JobIds :
          jobs[j].status = "DLQ" =>
             \/ jobs'[j].status = "DLQ"
             \/ jobs'[j] = Saved(ViewReplay(jobs[j], now), now)]_vars

\* C3: a job whose status is DONE keeps that status on every step that is
\* not a retry call on it.
C3_DoneLeftOnlyByRetry ==
    [][\A j \in JobIds :
          jobs[j].status = "DONE" =>
             \/ jobs'[j].status = "DONE"
             \/ jobs'[j] = Saved(ViewRetry(jobs[j], now), now)]_vars

\* C4: a step that takes a job from PENDING or THROTTLED to THROTTLED, and a
\* reconciler step that takes it from THROTTLED back to PENDING, leave its
\* attempts as they were.
C4_ThrottleKeepsAttempts ==
    [][\A j \in JobIds :
          /\ (jobs[j].status \in {"PENDING", "THROTTLED"}
              /\ jobs'[j].status = "THROTTLED")
                => jobs'[j].attempts = jobs[j].attempts
          /\ (rec.cat = "throttled" /\ jobs[j].status = "THROTTLED"
              /\ jobs'[j].status = "PENDING")
                => jobs'[j].attempts = jobs[j].attempts]_vars

\* A job was throttled, released (or found ready by proc) and throttled again.
C4_Witness ==
    \E j \in JobIds : jobs[j].status = "THROTTLED" /\ jobs[j].throttle_count >= 2

\* The job's log is one submit followed by leases, progress and failures by
\* a fail call or the pipeline, every failure after a lease of its own.
FailuresOnly(ev) ==
    /\ \A i \in DOMAIN ev :
         /\ ev[i].type \in {"SUBMITTED", "LEASED", "PROGRESS_UPDATED", "FAILED",
                            "RETRY_SCHEDULED", "MOVED_TO_DLQ"}
         /\ ev[i].type = "SUBMITTED" => i = 1
         /\ ev[i].type = "FAILED" =>
              /\ ev[i].meta \in {"worker error", "pipeline error"}
              /\ \E k \in 1..(i - 1) :
                   /\ ev[k].type = "LEASED"
                   /\ \A n \in (k + 1)..(i - 1) : ev[n].type # "FAILED"

\* C5: with max_attempts = m, the k-th failure of a job that is leased before
\* each failure leaves it DLQ only when k = m, and at DLQ its log holds m
\* FAILED events and one MOVED_TO_DLQ event.
C5_AttemptBudget ==
    \A j \in JobIds :
       (FailuresOnly(jobs[j].events) /\ jobs[j].status = "DLQ") =>
          /\ CountEvents(jobs[j].events, "FAILED") = jobs[j].max_attempts
          /\ CountEvents(jobs[j].events, "MOVED_TO_DLQ") = 1

\* C6: a submit by tenant T with key K, when T has a job J with key K that is
\* not DONE or DLQ, answers with J's id and changes no row, whatever its
\* other inputs are.
C6_IdempotentSubmit ==
    [][\A q \in Reqs, in \in SubmitInputs, J \in JobIds :
          (/\ in.key # Null
           /\ jobs[J].tenant = in.tenant
           /\ jobs[J].idempotency_key = in.key
           /\ jobs[J].status \notin {"DONE", "DLQ"}
           /\ CreateLookup(q, in))
          => /\ resp'[q] = [code |-> 200, id |-> J]
             /\ jobs' = jobs
             /\ req'[q].kind = "idle"]_vars

\* A submit was answered with an existing row whose key is set.
C6_Witness ==
    \E q \in Reqs :
       /\ resp[q].code = 200
       /\ jobs[resp[q].id].idempotency_key # Null
       /\ jobs[resp[q].id].label = "A"

\* C7: no two jobs of a tenant share a non-null idempotency_key, and no
\* submit fails: two submits with the same key that both passed the lookup
\* are both answered with the one job.
C7_ConcurrentSubmitsSucceed ==
    /\ \A i, j \in JobIds :
         (i # j /\ jobs[i].tenant = jobs[j].tenant
          /\ jobs[i].idempotency_key # Null)
            => jobs[i].idempotency_key # jobs[j].idempotency_key
    /\ \A q \in Reqs : resp[q].code \in {0, 200, 201}

\* The submits, retries and replays of `tenant` that succeeded after `from`:
\* each left a SUBMITTED event on its job.
Triggers(tenant, from) ==
    UNION {{<<j, i>> : i \in {n \in DOMAIN jobs[j].events :
                                 /\ jobs[j].events[n].type = "SUBMITTED"
                                 /\ jobs[j].events[n].ts > from}} :
           j \in {k \in JobIds : jobs[k].tenant = tenant}}

\* C8: in the 60 seconds up to now, at most JOBS_PER_MIN_LIMIT submits,
\* retries and replays of any one tenant succeeded.
C8_RateLimit ==
    \A t \in Tenants : Cardinality(Triggers(t, now - 60)) <= JOBS_PER_MIN_LIMIT

\* The reconciler step on row j of its lease-expired loop.
ExpiredStep(j) ==
    /\ rec.cat = "expired"
    /\ j \in rec.todo
    /\ rec'.todo = rec.todo \ {j}

\* C9: the reconciler's lease-expired step on a RUNNING row whose lease_until
\* is before the pass's now adds 1 to attempts, sets failure_reason to
\* "Worker lease expired", clears locked_by and lease_until, and leaves
\* FAILED when the new attempts are below max_attempts and DLQ otherwise; no
\* step of a pass changes a RUNNING row whose lease_until is not before the
\* pass's now.
C9_LeaseExpiryRecovery ==
    [][\A j \in JobIds :
          /\ (ExpiredStep(j) /\ jobs[j].status = "RUNNING"
              /\ jobs[j].lease_until # NoTime /\ jobs[j].lease_until < rec.now)
             => /\ jobs'[j].attempts = jobs[j].attempts + 1
                /\ jobs'[j].failure_reason = "Worker lease expired"
                /\ jobs'[j].locked_by = Null
                /\ jobs'[j].lease_until = NoTime
                /\ jobs'[j].status =
                      IF jobs'[j].attempts < jobs'[j].max_attempts
                      THEN "FAILED" ELSE "DLQ"
          /\ (rec.cat # "idle" /\ rec' # rec /\ jobs[j].status = "RUNNING"
              /\ jobs[j].lease_until >= rec.now)
             => jobs'[j] = jobs[j]]_vars

\* A pass recovered an expired lease, and a pass left a lease alone that
\* ended at the pass's very now.
C9_Witness ==
    \E j \in JobIds :
       /\ jobs[j].failure_reason = "Worker lease expired"
       /\ jobs[j].status = "FAILED"
       /\ jobs[j].attempts = 2

C9_WitnessKept ==
    \E j \in JobIds :
       /\ jobs[j].status = "RUNNING"
       /\ jobs[j].lease_until = now
       /\ rec.cat = "idle"
       /\ now > jobs[j].created_at

\* The first beat more than JOB_PENDING_TIMEOUT_SECONDS after row j's submit.
FirstTimeout(j) ==
    (((jobs[j].created_at + JOB_PENDING_TIMEOUT_SECONDS) \div JOB_RETRY_SCAN_SECONDS) + 1)
        * JOB_RETRY_SCAN_SECONDS

\* Row j has max_attempts 3 and was never leased, and the pass of the beat
\* at `now` is over.
NeverLeasedAfterPass(j) ==
    /\ jobs[j].max_attempts = DEFAULT_MAX_ATTEMPTS
    /\ CountEvents(jobs[j].events, "LEASED") = 0
    /\ rec.cat = "idle"

TimedOutOnce(j) ==
    /\ jobs[j].status = "FAILED"
    /\ jobs[j].failure_reason = "Pending timeout"
    /\ jobs[j].attempts = 1

\* C10 as claimed: a job that is never leased is FAILED with "Pending
\* timeout" and attempts = 1 after the first pass more than 10 s after its
\* submit, and DLQ after two more passes.
C10_DlqAfterTwoMorePasses ==
    \A j \in JobIds :
       NeverLeasedAfterPass(j) =>
          /\ now = FirstTimeout(j) => TimedOutOnce(j)
          /\ now = FirstTimeout(j) + 2 * JOB_RETRY_SCAN_SECONDS
                => jobs[j].status = "DLQ"

\* C10 as amended: FAILED with "Pending timeout" and attempts = 1 after the
\* first pass more than 10 s after the submit; the next pass puts the job
\* back to PENDING, so after two more passes it is PENDING with attempts = 1;
\* it is DLQ after its third pending timeout, eight passes after the first,
\* and not before.
C10_DlqAfterThirdTimeout ==
    \A j \in JobIds :
       NeverLeasedAfterPass(j) =>
          /\ now = FirstTimeout(j) => TimedOutOnce(j)
          /\ now = FirstTimeout(j) + 2 * JOB_RETRY_SCAN_SECONDS
                => jobs[j].status = "PENDING" /\ jobs[j].attempts = 1
          /\ jobs[j].status = "DLQ"
                <=> now >= FirstTimeout(j) + 8 * JOB_RETRY_SCAN_SECONDS

C10_Witness ==
    \E j \in JobIds :
       /\ NeverLeasedAfterPass(j)
       /\ now = FirstTimeout(j) + 8 * JOB_RETRY_SCAN_SECONDS
       /\ jobs[j].status = "DLQ"
       /\ CountEvents(jobs[j].events, "FAILED") = DEFAULT_MAX_ATTEMPTS
\* C11: a RUNNING row has a holder and a lease and no next_run_at.
C11_RunningFields ==
    \A j \in JobIds :
      jobs[j].status = "RUNNING" =>
        /\ jobs[j].locked_by # Null
        /\ jobs[j].lease_until # NoTime
        /\ jobs[j].next_run_at = NoTime

\* C12: a THROTTLED row has a next_run_at and neither holder nor lease.
C12_ThrottledFields ==
    \A j \in JobIds :
      jobs[j].status = "THROTTLED" =>
        /\ jobs[j].next_run_at # NoTime
        /\ jobs[j].locked_by = Null
        /\ jobs[j].lease_until = NoTime

\* C13: a FAILED row has counted an attempt, has a next_retry_at and no holder.
C13_FailedFields ==
    \A j \in JobIds :
      jobs[j].status = "FAILED" =>
        /\ jobs[j].attempts >= 1
        /\ jobs[j].next_retry_at # NoTime
        /\ jobs[j].locked_by = Null

\* C14: a DLQ row has used up its attempts and has no holder.
C14_DlqFields ==
    \A j \in JobIds :
      jobs[j].status = "DLQ" =>
        /\ jobs[j].attempts >= jobs[j].max_attempts
        /\ jobs[j].locked_by = Null

\* A FAILED row that the Runner's row update wrote after the failure, with a
\* call or the Reconciler about to save what it read of the row.
C13_Witness ==
    \E j \in JobIds :
      /\ jobs[j].status = "FAILED"
      /\ jobs[j].lease_until # NoTime
      /\ \/ rec.jid = j
         \/ \E q \in Reqs : req[q].kind # "idle" /\ req[q].jid = j

\* C15: a DONE row has progress 100 and every row processed.
C15_DoneFields ==
    \A j \in JobIds :
      jobs[j].status = "DONE" =>
        /\ jobs[j].progress = 100
        /\ jobs[j].processed_rows = jobs[j].total_rows

\* C16: progress is within 0..100, and a step that leaves a job RUNNING does
\* not lower its progress.
C16_ProgressMonotone ==
    /\ [](\A j \in JobIds : jobs[j].progress \in 0..100)
    /\ [][\A j \in JobIds :
            (jobs[j].status = "RUNNING" /\ jobs'[j].status = "RUNNING")
              => jobs'[j].progress >= jobs[j].progress]_vars

\* C17: a step that changes a job's status makes its events log longer.
C17_StatusChangeLogged ==
    [][\A j \in JobIds :
         jobs'[j].status # jobs[j].status
           => Len(jobs'[j].events) > Len(jobs[j].events)]_vars

IsPrefix(s, t) ==
    /\ Len(s) <= Len(t)
    /\ \A i \in 1..Len(s) : s[i] = t[i]

\* C18: every write leaves a job's stored events as a prefix of the events
\* stored after it.
C18_EventsAppendOnly ==
    [][\A j \in JobIds : IsPrefix(jobs[j].events, jobs'[j].events)]_vars

\* C19: a read (retrieve, and list and stats, which run the same code on
\* every row they return) leaves every job as it was.
C19_ReadsChangeNothing ==
    [][(\E q \in Reqs : RetrieveRead(q, {12}, TRUE)) => jobs' = jobs]_vars

\* The reconciler step on row j of its throttled loop.
ReleaseStep(j) ==
    /\ rec.cat = "throttled"
    /\ j \in rec.todo
    /\ rec'.todo = rec.todo \ {j}

\* proc's first transaction on row j commits on worker r.
LeaseStep(r, j) ==
    /\ run[r].pc = "locked"
    /\ run[r].jid = j
    /\ run'[r].pc # "locked"

\* C20: the throttled loop of a pass leaves a THROTTLED row whose next_run_at
\* is not after the pass's now PENDING, with next_run_at cleared and a proc
\* message sent, and a pass that starts with such a row gets there; proc,
\* finding such a released row PENDING and fewer than CONCURRENT_JOBS_LIMIT
\* other rows of the tenant RUNNING, leaves it RUNNING, and when its pipeline
\* succeeds the row ends DONE.
C20_ThrottleRelease ==
    /\ [][\A j \in JobIds :
            (ReleaseStep(j) /\ ThrottledReady(jobs[j], rec.now))
              => /\ jobs'[j].status = "PENDING"
                 /\ jobs'[j].next_run_at = NoTime
                 /\ queue'[j] = queue[j] + 1]_vars
    /\ [][\A j \in JobIds : \A r \in Runners :
            (LeaseStep(r, j) /\ jobs[j].status = "PENDING"
             /\ jobs[j].throttle_count >= 1
             /\ run[r].running_now < CONCURRENT_JOBS_LIMIT)
              => jobs'[j].status = "RUNNING"]_vars
    /\ \A j \in 1..(CONCURRENT_JOBS_LIMIT + 1) :
          (rec.cat = "pending" /\ ThrottledReady(jobs[j], rec.now))
            ~> (/\ rec.cat = "throttled"
                /\ jobs[j].status = "PENDING"
                /\ jobs[j].next_run_at = NoTime
                /\ queue[j] > 0)
    /\ \A j \in 1..(CONCURRENT_JOBS_LIMIT + 1) :
          (/\ jobs[j].status = "RUNNING"
           /\ jobs[j].throttle_count >= 1
           /\ \E r \in Runners : run[r].jid = j /\ run[r].pc = "row_check")
            ~> jobs[j].status = "DONE"

\* A job that was throttled, released and run by the Runner is DONE.
C20_Witness ==
    \E j \in JobIds :
      /\ jobs[j].status = "DONE"
      /\ jobs[j].locked_by = Null
      /\ \E i \in DOMAIN jobs[j].events : jobs[j].events[i].type = "THROTTLED"

\* C21: a step that makes a job DONE leaves its throttle_count 0.
C21_DoneClearsThrottleCount ==
    [][\A j \in JobIds :
         (jobs[j].status # "DONE" /\ jobs'[j].status = "DONE")
           => jobs'[j].throttle_count = 0]_vars

\* The event the step appended to job j last, if it appended any.
Appended(j, type, meta) ==
    /\ Len(jobs'[j].events) > Len(jobs[j].events)
    /\ jobs'[j].events[Len(jobs'[j].events)].type = type
    /\ jobs'[j].events[Len(jobs'[j].events)].meta = meta

\* C22: a retry takes effect only on a FAILED or DONE job and a replay only
\* on a DLQ job; on any other job the call is answered 400, and a call
\* answered 400 leaves every job as it was.
C22_GuardsRejectUnchanged ==
    [][/\ \A j \in JobIds :
            /\ Appended(j, "SUBMITTED", "retried")
                  => jobs[j].status \in {"FAILED", "DONE"}
            /\ Appended(j, "SUBMITTED", "replayed") => jobs[j].status = "DLQ"
       /\ \A q \in Reqs :
            /\ (resp'[q] # resp[q] /\ resp'[q].code = 400) => jobs' = jobs
            /\ \A j \in JobIds :
                  (jobs[j].status \notin {"FAILED", "DONE"} /\ RetryReject(q)
                   /\ resp'[q].id = j)
                    => (resp'[q].code = 400 /\ jobs' = jobs)]_vars

\* A call was turned down on a job that is PENDING, RUNNING or THROTTLED, in
\* a table that also holds a DLQ job and a DONE job.
C22_Witness ==
    \E q \in Reqs :
      /\ resp[q].code = 400
      /\ resp[q].id \in JobIds
      /\ jobs[resp[q].id].status \in {"THROTTLED", "RUNNING", "PENDING"}
      /\ \E j \in JobIds : jobs[j].status = "DLQ"
      /\ \E j \in JobIds : jobs[j].status = "DONE"

\* C23: the step of an accepted retry or replay leaves the job PENDING, at
\* stage VALIDATING, with progress, processed_rows and attempts 0, no
\* failure_reason, an empty output_result, no holder and no lease, and its
\* events are the previous events followed by the one SUBMITTED event.
C23_RetryReplayReset ==
    [][\A j \in JobIds :
         (Appended(j, "SUBMITTED", "retried") \/ Appended(j, "SUBMITTED", "replayed"))
           => /\ jobs'[j].status = "PENDING"
              /\ jobs'[j].stage = "VALIDATING"
              /\ jobs'[j].progress = 0
              /\ jobs'[j].processed_rows = 0
              /\ jobs'[j].attempts = 0
              /\ jobs'[j].failure_reason = Null
              /\ jobs'[j].output_result = "empty"
              /\ jobs'[j].locked_by = Null
              /\ jobs'[j].lease_until = NoTime
              /\ Len(jobs'[j].events) = Len(jobs[j].events) + 1
              /\ IsPrefix(jobs[j].events, jobs'[j].events)]_vars

\* C24: a job that is RUNNING is not leased again: no step appends a LEASED
\* event to it or gives it another holder while it stays RUNNING.
C24_OneLeasePerPending ==
    [][\A j \in JobIds :
         (jobs[j].status = "RUNNING" /\ jobs'[j].status = "RUNNING")
           => /\ jobs'[j].locked_by = jobs[j].locked_by
              /\ CountEvents(jobs'[j].events, "LEASED")
                    <= CountEvents(jobs[j].events, "LEASED")]_vars

\* C25: the step that stores a submitted job, and the step of an accepted
\* retry or replay, sends a proc message for that job.
C25_EnqueueAfterWrite ==
    [][/\ Len(jobs') > Len(jobs) => queue'[Len(jobs')] > 0
       /\ \A j \in JobIds :
            (Appended(j, "SUBMITTED", "retried") \/ Appended(j, "SUBMITTED", "replayed"))
              => queue'[j] > queue[j]]_vars

\* What the claim of a no-op is about: status, attempts, progress, the lease
\* fields, the throttle fields and the events.
Essentials(row) ==
    <<row.status, row.attempts, row.progress, row.processed_rows, row.stage,
      row.locked_by, row.lease_until, row.next_run_at, row.throttle_count,
      row.next_retry_at, row.events>>

\* C26: proc's first transaction on a job that is DONE, RUNNING, FAILED or
\* DLQ, or THROTTLED with next_run_at after proc's now, leaves the job's
\* status, attempts, progress, lease fields, throttle fields and events as
\* they were, and proc returns without entering the pipeline.
C26_ProcSkips ==
    [][\A j \in JobIds : \A r \in Runners :
         (/\ LeaseStep(r, j)
          /\ \/ jobs[j].status \in {"DONE", "RUNNING", "FAILED", "DLQ"}
             \/ (jobs[j].status = "THROTTLED" /\ jobs[j].next_run_at > run[r].pnow))
           => /\ Essentials(jobs'[j]) = Essentials(jobs[j])
              /\ run'[r].pc = "idle"]_vars

\* proc has visited a THROTTLED job before its next_run_at and a RUNNING job
\* (its save stamped updated_at after the job's last event).
C26_Witness ==
    /\ \E j \in JobIds :
         /\ jobs[j].status = "THROTTLED"
         /\ jobs[j].next_run_at > now
         /\ jobs[j].updated_at > jobs[j].events[Len(jobs[j].events)].ts
    /\ \E j \in JobIds :
         /\ jobs[j].status = "RUNNING"
         /\ jobs[j].updated_at > jobs[j].events[Len(jobs[j].events)].ts
         /\ jobs[j].lease_until < now + lease_seconds

\* A loop body of reconcile would change and save this row at rnow.
Due(row, rnow) ==
    \E cat \in {"pending", "throttled", "failed", "expired"} :
        ReconcileListed(cat, row, rnow) /\ ReconcileActs(cat, row, rnow)

\* C27: when a pass of the Reconciler ends, no job is left for a pass with
\* the same now to change: a second pass at that instant leaves every job
\* as the first one did.
C27_SecondPassChangesNothing ==
    [][(rec.cat # "idle" /\ rec'.cat = "idle")
         => \A j \in JobIds : ~Due(jobs'[j], rec.now)]_vars

\* C27, amended: a job that a pass has written is written again neither by
\* a later loop of that pass nor by a further pass with the same now, and
\* when no more than RECONCILE_BATCH jobs are stored a pass leaves no job
\* for a pass with the same now to change.
C27_HandledOnce ==
    [][/\ \A j \in JobIds :
            (rec.cat # "idle" /\ jobs[j].updated_at = rec.now) => jobs'[j] = jobs[j]
       /\ (rec.cat # "idle" /\ rec'.cat = "idle" /\ Len(jobs) <= RECONCILE_BATCH)
            => \A j \in JobIds : ~Due(jobs'[j], rec.now)]_vars

\* A pass has handled a job of each category, and a further pass at the
\* same now is under way.
C27_Witness ==
    /\ rec.cat = "throttled"
    /\ \A j \in JobIds : jobs[j].updated_at = rec.now
    /\ \E j \in JobIds : jobs[j].failure_reason = "Pending timeout"
    /\ \E j \in JobIds : jobs[j].failure_reason = "Worker lease expired"
    /\ \E j \in JobIds : jobs[j].status = "PENDING" /\ jobs[j].throttle_count > 0
    /\ \E j \in JobIds :
         /\ jobs[j].status = "PENDING"
         /\ jobs[j].events[Len(jobs[j].events)].type = "RETRY_SCHEDULED"
         /\ jobs[j].events[Len(jobs[j].events)].ts = rec.now

\* The step appends a THROTTLED event to job j.
ThrottledStep(j) ==
    /\ Len(jobs'[j].events) = Len(jobs[j].events) + 1
    /\ jobs'[j].events[Len(jobs'[j].events)].type = "THROTTLED"

\* C28: a step that throttles a job with throttle_count n, in a proc run
\* whose now is pnow, sets throttle_count to n + 1 and next_run_at to
\* pnow + min(JOB_THROTTLE_BACKOFF_SECONDS * (1 + n), 300); the delay is 15 s
\* for n = 0, never decreases as n grows and never exceeds 300 s; and a
\* step that puts a job in RUNNING leaves its throttle_count as it was.
C28_ThrottleBackoff ==
    /\ [](/\ throttle_backoff_seconds(0) = 15
          /\ \A n \in 0..MaxThrottles :
               /\ throttle_backoff_seconds(n) <= throttle_backoff_seconds(n + 1)
               /\ throttle_backoff_seconds(n) <= 300
               /\ throttle_backoff_seconds(n)
                    = Min(JOB_THROTTLE_BACKOFF_SECONDS * (1 + n), 300))
    /\ [][\A j \in JobIds :
            /\ ThrottledStep(j)
                 => /\ jobs'[j].status = "THROTTLED"
                    /\ jobs'[j].throttle_count = jobs[j].throttle_count + 1
                    /\ \E r \in Runners :
                         /\ LeaseStep(r, j)
                         /\ jobs'[j].next_run_at = run[r].pnow
                              + Min(JOB_THROTTLE_BACKOFF_SECONDS
                                      * (1 + jobs[j].throttle_count), 300)
            /\ (jobs[j].status # "RUNNING" /\ jobs'[j].status = "RUNNING")
                 => jobs'[j].throttle_count = jobs[j].throttle_count]_vars

\* A job throttled once (its delay was 15 s) has been leased by the Runner
\* since and is RUNNING with throttle_count 1, and the cap is reached within
\* MaxThrottles.
C28_Witness ==
    /\ throttle_backoff_seconds(MaxThrottles) = 300
    /\ \E j \in JobIds :
         /\ jobs[j].status = "RUNNING"
         /\ jobs[j].locked_by = "celery-worker"
         /\ jobs[j].throttle_count = 1
         /\ \E i \in 1..Len(jobs[j].events) :
              /\ jobs[j].events[i].type = "THROTTLED"
              /\ now >= jobs[j].events[i].ts + JOB_THROTTLE_BACKOFF_SECONDS

\* The rows of `tenant` a lease may take at `clock`: PENDING, or THROTTLED
\* with next_run_at reached.
Leasable(tenant, clock) ==
    {j \in JobIds :
       /\ jobs[j].tenant = tenant
       /\ \/ jobs[j].status = "PENDING"
          \/ (jobs[j].status = "THROTTLED" /\ jobs[j].next_run_at <= clock)}

\* C29: a lease call puts a job in RUNNING only if it was the oldest, by
\* created_at, of its tenant's PENDING or ready THROTTLED jobs and the
\* tenant had fewer than CONCURRENT_JOBS_LIMIT RUNNING jobs.
C29_LeaseCallSelection ==
    [][\A j \in JobIds :
         (/\ jobs[j].status # "RUNNING"
          /\ jobs'[j].status = "RUNNING"
          /\ jobs'[j].locked_by # "celery-worker")
           => /\ j \in Leasable(jobs[j].tenant, now)
              /\ \A k \in Leasable(jobs[j].tenant, now) :
                    jobs[j].created_at <= jobs[k].created_at
              /\ Cardinality(RunningOf(jobs[j].tenant)) < CONCURRENT_JOBS_LIMIT]_vars

\* C30: a step that leases a job (it appends a LEASED event and leaves the
\* job RUNNING) finds it with attempts below max_attempts; a Runner that
\* visits a PENDING or ready THROTTLED job with attempts >= max_attempts
\* leaves it in DLQ with a MOVED_TO_DLQ event.
C30_NoLeasePastBudget ==
    [][\A j \in JobIds :
         /\ (/\ CountEvents(jobs'[j].events, "LEASED")
                  > CountEvents(jobs[j].events, "LEASED")
             /\ jobs[j].status \in {"PENDING", "THROTTLED"}
             /\ jobs'[j].status = "RUNNING")
              => jobs[j].attempts < jobs[j].max_attempts
         /\ \A r \in Runners :
              (/\ LeaseStep(r, j)
               /\ j \in Leasable(jobs[j].tenant, run[r].pnow)
               /\ jobs[j].attempts >= jobs[j].max_attempts)
                => /\ jobs'[j].status = "DLQ"
                   /\ jobs'[j].events[Len(jobs'[j].events)].type = "MOVED_TO_DLQ"]_vars

\* The step adds to job j's log an event of `type` with `meta`.
Recorded(j, type, meta) ==
    \E i \in (Len(jobs[j].events) + 1)..Len(jobs'[j].events) :
        /\ jobs'[j].events[i].type = type
        /\ jobs'[j].events[i].meta = meta

\* C31: a failure reported by a fail call or raised by the Runner's pipeline
\* is recorded only on a job that is RUNNING: on any other job the step
\* leaves attempts, status and events as they were.
C31_FailureOnlyOnRunning ==
    [][\A j \in JobIds :
         (jobs[j].status # "RUNNING"
          /\ (Recorded(j, "FAILED", "worker error")
              \/ Recorded(j, "FAILED", "pipeline error")))
           => /\ jobs'[j].attempts = jobs[j].attempts
              /\ jobs'[j].status = jobs[j].status
              /\ jobs'[j].events = jobs[j].events]_vars

\* C32: a job is completed (a DONE event is recorded, status set to DONE)
\* only when it is RUNNING, and the Runner's completing transaction on a
\* job that is not RUNNING writes nothing.
C32_CompletionOnlyOnRunning ==
    [][\A j \in JobIds :
         jobs[j].status # "RUNNING"
           => /\ ~Recorded(j, "DONE", "")
              /\ jobs'[j].status = "DONE" => jobs[j].status = "DONE"
              /\ \A r \in Runners :
                   (run[r].pc = "finish" /\ run[r].jid = j /\ run'[r].pc = "idle")
                     => jobs'[j] = jobs[j]]_vars

\* C33: the row loop's progress write leaves a job that is not RUNNING at
\* the moment of the write as it is.
C33_RowWriteOnlyOnRunning ==
    [][\A r \in Runners :
         (/\ run[r].pc = "row_update"
          /\ run'[r].index = run[r].index + 1
          /\ jobs[run[r].jid].status # "RUNNING")
           => jobs'[run[r].jid] = jobs[run[r].jid]]_vars

\* C34: when the Reconciler saves a row that another transition has moved
\* out of the loop's category since the Reconciler read it, the row keeps
\* the status, attempts, lease fields, events and output_result that
\* transition committed.
C34_ReconcilerKeepsOthersWrites ==
    [][(/\ rec.jid # 0
        /\ rec'.jid = 0
        /\ ~ReconcileActs(rec.cat, jobs[rec.jid], rec.now))
         => LET was == jobs[rec.jid]
                is == jobs'[rec.jid]
            IN /\ is.status = was.status
               /\ is.attempts = was.attempts
               /\ is.locked_by = was.locked_by
               /\ is.lease_until = was.lease_until
               /\ is.events = was.events
               /\ is.output_result = was.output_result]_vars

\* C35: a step of the Reconciler's failed-ready loop changes a FAILED job
\* only when the job's next_retry_at is null or <= now; it then sets DLQ
\* when attempts >= max_attempts, and otherwise PENDING with attempts
\* unchanged, progress and processed_rows 0 and the lease fields cleared,
\* appends RETRY_SCHEDULED and sends a proc message.
C35_FailedReadyRequeue ==
    [][\A j \in JobIds :
         (/\ rec.cat = "failed"
          /\ rec' # rec
          /\ jobs[j].status = "FAILED"
          /\ jobs'[j] # jobs[j])
           => /\ jobs[j].next_retry_at = NoTime \/ jobs[j].next_retry_at <= now
              /\ IF jobs[j].attempts >= jobs[j].max_attempts
                 THEN jobs'[j].status = "DLQ"
                 ELSE /\ jobs'[j].status = "PENDING"
                      /\ jobs'[j].attempts = jobs[j].attempts
                      /\ jobs'[j].progress = 0
                      /\ jobs'[j].processed_rows = 0
                      /\ jobs'[j].locked_by = Null
                      /\ jobs'[j].lease_until = NoTime
                      /\ Appended(j, "RETRY_SCHEDULED", "")
                      /\ queue'[j] = queue[j] + 1]_vars

\* C36: while now is before the next_run_at of a THROTTLED job, no step
\* of the Runner, the lease call or the Reconciler sets its status to
\* PENDING or RUNNING.
C36_ThrottledUntilRunAt ==
    [][\A j \in JobIds :
         (/\ jobs[j].status = "THROTTLED"
          /\ jobs[j].next_run_at # NoTime
          /\ now < jobs[j].next_run_at)
           => jobs'[j].status \notin {"PENDING", "RUNNING"}]_vars

\* C37: a progress update on a RUNNING job, by the progress call or by the
\* Runner's row loop, extends the lease: afterwards lease_until is not
\* earlier than before and not earlier than the time of the update.
C37_ProgressExtendsLease ==
    [][\A j \in JobIds :
         (/\ jobs[j].status = "RUNNING"
          /\ \/ Appended(j, "PROGRESS_UPDATED", "")
             \/ \E r \in Runners : /\ run[r].pc = "row_update"
                                    /\ run[r].jid = j
                                    /\ run'[r].index = run[r].index + 1)
           => /\ jobs'[j].lease_until >= jobs[j].lease_until
              /\ jobs'[j].lease_until >= now]_vars

C39_ReachesTerminal ==
    <>(\A j \in JobIds : jobs[j].status \in {"DONE", "DLQ"})

\* A job a worker leased and left, moved to DLQ by the Reconciler, next to a
\* throttled job that the Reconciler released and the Runner ran to DONE.
C39_Witness ==
    /\ \A j \in JobIds : jobs[j].status \in {"DONE", "DLQ"}
    /\ \E j \in JobIds : /\ jobs[j].status = "DLQ"
                          /\ jobs[j].failure_reason = "Worker lease expired"
    /\ \E j \in JobIds : /\ jobs[j].status = "DONE"
                          /\ jobs[j].throttle_count > 0

\* The tables that differ from the present one only in the status of the
\* jobs of tenants other than `tenant`.
Elsewhere(tenant) ==
    LET others == {j \in JobIds : jobs[j].tenant # tenant}
    IN {[j \in JobIds |-> IF j \in others
                            THEN [jobs[j] EXCEPT !.status = given[j]]
                            ELSE jobs[j]] :
           given \in [others -> JobStatus]}

\* C40: the count proc reads for a job is the number of the other RUNNING
\* jobs of the job's own tenant, its result (RUNNING or THROTTLED) is the
\* same on every table that differs only in the jobs of other tenants, and
\* the row it saves has the status of that result.
C40_TenantIsolation ==
    [][\A r \in Runners :
         /\ (run[r].pc = "idle" /\ run'[r].pc = "locked")
              => LET j == run'[r].jid
                 IN /\ run'[r].running_now =
                         Cardinality(RunningOf(jobs[j].tenant) \ {j})
                    /\ \A table \in Elsewhere(jobs[j].tenant) :
                         ProcLeaseOutcome(table[j], now, RunningIn(table, j))
                           = ProcLeaseOutcome(jobs[j], run'[r].pnow,
                                              run'[r].running_now)
         /\ (run[r].pc = "locked" /\ run'[r].pc # "locked")
              => LET j == run[r].jid
                     o == ProcLeaseOutcome(jobs[j], run[r].pnow, run[r].running_now)
                 IN /\ o = "throttled" => jobs'[j].status = "THROTTLED"
                    /\ o = "leased" => jobs'[j].status = "RUNNING"]_vars

\* The Runner holds a job of one tenant while another tenant has its slots
\* taken and a job throttled.
C40_Witness ==
    \E j \in JobIds, k \in JobIds :
        /\ jobs[j].tenant # jobs[k].tenant
        /\ jobs[j].status = "RUNNING"
        /\ jobs[j].locked_by = "celery-worker"
        /\ jobs[k].status = "THROTTLED"
        /\ Cardinality(RunningOf(jobs[k].tenant)) >= CONCURRENT_JOBS_LIMIT

====
